---- MODULE Spec2Model ----
(***************************************************************************)
(* Model of the node/telemetry alignment scripts                           *)
(*   src/Path Prob Visual/PathProb2DVisual.py   (variant "2D")             *)
(*   src/Path Prob Visual/PathProb3DVisual.py   (variant "3D")             *)
(* and of the value extractor they share with                              *)
(*   src/Path Visualizer Prototype/PathProbVisual.py.                      *)
(*                                                                         *)
(* Data representation.                                                    *)
(*   - a text is a sequence of tokens; the token "drone:" stands for the   *)
(*     six characters of the label, " " for a whitespace character, "0"    *)
(*     and "7" for digits, "." for the dot and "x" for any other character *)
(*   - a float is [kind |-> "float", num, den] (the value num/den in       *)
(*     lowest terms); np.nan is NaN, Python's None is PyNone               *)
(*   - a datetime is [kind |-> "datetime", day, ms]: the proleptic         *)
(*     Gregorian ordinal of its day (date.toordinal()) and the             *)
(*     milliseconds into that day; pandas' NaT is NaT                      *)
(*   - a DataFrame is [cols |-> sequence of column names,                  *)
(*     rows |-> sequence of rows]; a row is [Timestamp |-> t, vals |-> f]  *)
(*     with f a function on the columns other than "Timestamp"             *)
(***************************************************************************)
EXTENDS Integers, Sequences, FiniteSets, TLC

\* ------------------------------------------------------------------ bounds
\* longest text handed to the value extractor
MaxText == 4
\* node timestamps are second ticks 0..MaxTick of the GPS epoch day
MaxTick == 3
\* rows in one node CSV file
MaxRows == 2
\* CSV files in one node folder
MaxFiles == 2
\* node folders in the data folder
MaxNodes == 2
\* GPS messages decoded from the telemetry log
MaxMsgs == 2
\* largest GPS week number of a message
MaxWeek == 1
\* rows in one node CSV file when the whole pipeline runs
MaxPipeRows == 1
\* rows in the file the status filter is run on by itself
MaxFilterRows == 1
\* longest status text, in markers
MaxStatus == 2
\* the CSV files a folder of the viewer holds
MaxViewerFiles == 3

\* ------------------------------------------------------------------ values
RECURSIVE GCD(_, _)
GCD(a, b) == IF b = 0 THEN a ELSE GCD(b, a % b)

\* the float num/den, in lowest terms
Float(num, den) ==
    LET g == GCD(num, den)
    IN  [kind |-> "float", num |-> num \div g, den |-> den \div g]

NaN == [kind |-> "nan", num |-> 0, den |-> 1]
PyNone == [kind |-> "None", num |-> 0, den |-> 1]
\* the outcome of a call that raises ValueError
ValueError == [kind |-> "ValueError", num |-> 0, den |-> 1]
Zero == Float(0, 1)

IsNA(v) == v.kind \in {"nan", "None"}

RECURSIVE Pow10(_)
Pow10(k) == IF k = 0 THEN 1 ELSE 10 * Pow10(k - 1)

\* a < b for two floats (denominators are positive)
FloatLess(a, b) == a.num * b.den < b.num * a.den

FloatAdd(a, b) == Float(a.num * b.den + b.num * a.den, a.den * b.den)

FloatSum(s) ==
    LET RECURSIVE Sum(_)
        Sum(k) == IF k = 0 THEN Zero ELSE FloatAdd(Sum(k - 1), s[k])
    IN  Sum(Len(s))

\* np.mean of a non-empty list of floats
mean(s) == LET t == FloatSum(s) IN Float(t.num, t.den * Len(s))

\* Series.max() and Series.min(): NaN cells are skipped, and the result is
\* NaN when nothing is left
SeriesMax(cells) ==
    LET F == {cells[i] : i \in {j \in DOMAIN cells : ~IsNA(cells[j])}}
    IN  IF F = {} THEN NaN ELSE CHOOSE v \in F : \A w \in F : ~FloatLess(v, w)

SeriesMin(cells) ==
    LET F == {cells[i] : i \in {j \in DOMAIN cells : ~IsNA(cells[j])}}
    IN  IF F = {} THEN NaN ELSE CHOOSE v \in F : \A w \in F : ~FloatLess(w, v)

\* a == b as Python compares two floats: nan equals nothing
PyEq(a, b) == ~IsNA(a) /\ ~IsNA(b) /\ a = b

\* ------------------------------------------------------- 4.1 value extractor
Whitespace == {" "}
Digits == {"0", "7"}
\* the character class [\d\.]
NumChars == Digits \cup {"."}
Alphabet == {"drone:", " ", "0", "7", ".", "x"}

DigitValue(c) == IF c = "7" THEN 7 ELSE 0

\* a text cell, and the cell pandas leaves where the CSV field is empty
Text(s) == [kind |-> "str", chars |-> s]
NoText == [kind |-> "nan", chars |-> <<>>]
NoneText == [kind |-> "None", chars |-> <<>>]

\* str(text): a text is itself; None reads "None" and a float nan reads
\* "nan", four and three characters that are neither label, space nor number
Str(text) ==
    IF text.kind = "None" THEN <<"x", "x", "x", "x">>
    ELSE IF text.kind = "nan" THEN <<"x", "x", "x">>
    ELSE text.chars

\* first index >= i of s that holds no whitespace (Len(s)+1 if none): \s*
RECURSIVE SkipSpace(_, _)
SkipSpace(s, i) ==
    IF i <= Len(s) /\ s[i] \in Whitespace THEN SkipSpace(s, i + 1) ELSE i

\* last index of the run of [\d\.] characters that starts at i: ([\d\.]+)
RECURSIVE RunEnd(_, _)
RunEnd(s, i) ==
    IF i + 1 <= Len(s) /\ s[i + 1] \in NumChars THEN RunEnd(s, i + 1) ELSE i

\* the pattern drone:\s*([\d\.]+) matches at position i of s
MatchesAt(s, i) ==
    /\ s[i] = "drone:"
    /\ LET j == SkipSpace(s, i + 1) IN j <= Len(s) /\ s[j] \in NumChars

\* re.search: group(1) of the leftmost match, <<>> when there is no match
Search(s) ==
    LET hits == {i \in 1..Len(s) : MatchesAt(s, i)}
    IN  IF hits = {} THEN <<>>
        ELSE LET i == CHOOSE h \in hits : \A k \in hits : h <= k
                 j == SkipSpace(s, i + 1)
             IN  SubSeq(s, j, RunEnd(s, j))

RECURSIVE DigitsValue(_)
DigitsValue(s) ==
    IF s = <<>> THEN 0
    ELSE 10 * DigitsValue(SubSeq(s, 1, Len(s) - 1)) + DigitValue(s[Len(s)])

\* float(g) for a run g of digits and dots: a number when g has at most one
\* dot and at least one digit, ValueError otherwise
PyFloat(g) ==
    LET dots == {i \in 1..Len(g) : g[i] = "."}
        digs == SelectSeq(g, LAMBDA c : c \in Digits)
    IN  IF Cardinality(dots) > 1 \/ digs = <<>> THEN ValueError
        ELSE IF dots = {} THEN Float(DigitsValue(digs), 1)
        ELSE LET d == CHOOSE i \in dots : TRUE
             IN  Float(DigitsValue(digs), Pow10(Len(g) - d))

\* extract_drone_value(text); absent is np.nan (2D, 3D) or None (prototype)
extract_drone_value_as(text, absent) ==
    LET g == Search(Str(text))
    IN  IF g = <<>> THEN absent ELSE PyFloat(g)

extract_drone_value(text) == extract_drone_value_as(text, NaN)

\* pd.to_numeric(cell, errors="coerce") on a cell read as text: the number
\* it spells, NaN for an empty cell or a text that is no number
to_numeric(cell) ==
    IF cell.kind # "str" \/ cell.chars = <<>> THEN NaN
    ELSE IF \E i \in DOMAIN cell.chars : cell.chars[i] \notin NumChars THEN NaN
    ELSE IF PyFloat(cell.chars) = ValueError THEN NaN
    ELSE PyFloat(cell.chars)

\* ------------------------------------------------------------------- time
MsPerDay == 24 * 3600 * 1000

Datetime(day, ms) == [kind |-> "datetime", day |-> day, ms |-> ms]
NaT == [kind |-> "NaT", day |-> 0, ms |-> 0]
\* the integer 0 that fillna(0) leaves in a datetime column
IntZero == [kind |-> "int", day |-> 0, ms |-> 0]
\* a timestamp field that does not parse as a date
BadDate == [kind |-> "str", day |-> 0, ms |-> 0]

\* datetime(1980, 1, 6): its ordinal is date(1980, 1, 6).toordinal()
gps_epoch == Datetime(722820, 0)
leap_seconds == 18

\* timedelta(weeks=w, milliseconds=m), normalised as Python does: whole days
\* and a non-negative remainder
timedelta(w, m) == [days |-> 7 * w + m \div MsPerDay, ms |-> m % MsPerDay]

\* datetime + timedelta
DatetimeAdd(dt, td) ==
    Datetime(dt.day + td.days + (dt.ms + td.ms) \div MsPerDay,
             (dt.ms + td.ms) % MsPerDay)

\* a < b on datetimes
TsLess(a, b) == a.day < b.day \/ (a.day = b.day /\ a.ms < b.ms)
TsLeq(a, b) == a = b \/ TsLess(a, b)

\* b - a for a <= b, as a timedelta
TsDiff(a, b) ==
    IF b.ms >= a.ms THEN [days |-> b.day - a.day, ms |-> b.ms - a.ms]
    ELSE [days |-> b.day - a.day - 1, ms |-> b.ms - a.ms + MsPerDay]

\* |a - b|
TsDist(a, b) == IF TsLeq(a, b) THEN TsDiff(a, b) ELSE TsDiff(b, a)

TdLeq(x, y) == x.days < y.days \/ (x.days = y.days /\ x.ms <= y.ms)
TdLess(x, y) == x.days < y.days \/ (x.days = y.days /\ x.ms < y.ms)

\* pd.to_datetime(cell, errors="coerce")
to_datetime(cell) == IF cell.kind = "datetime" THEN cell ELSE NaT

\* --------------------------------------------------------------- DataFrames
Range(s) == {s[i] : i \in DOMAIN s}

\* pd.DataFrame()
EmptyFrame == [cols |-> <<>>, rows |-> <<>>]

\* DataFrame.empty: some axis has length 0
IsEmpty(df) == Len(df.cols) = 0 \/ Len(df.rows) = 0

\* the columns of df other than the key
ValueCols(df) == SelectSeq(df.cols, LAMBDA c : c # "Timestamp")

\* a <= b in sort order: NaT sorts last (na_position="last")
KeyLeq(a, b) == b.kind = "NaT" \/ (a.kind # "NaT" /\ TsLeq(a, b))

\* r put into the sorted sequence s after the rows whose key is <= its key
Insert(s, r) ==
    LET k == Cardinality({i \in DOMAIN s : KeyLeq(s[i].Timestamp, r.Timestamp)})
    IN  SubSeq(s, 1, k) \o <<r>> \o SubSeq(s, k + 1, Len(s))

\* rows ordered by Timestamp, rows of one timestamp kept in their order
RECURSIVE SortRows(_)
SortRows(rows) ==
    IF rows = <<>> THEN <<>>
    ELSE Insert(SortRows(SubSeq(rows, 1, Len(rows) - 1)), rows[Len(rows)])

\* df.sort_values("Timestamp")
sort_values(df) == [df EXCEPT !.rows = SortRows(@)]

\* the table with its missing cells left as they are
fillna_skipped(df) == df

\* df.fillna(0): every missing cell becomes 0, the key column included
fillna(df) ==
    [df EXCEPT !.rows =
        [i \in DOMAIN @ |->
            [Timestamp |-> IF @[i].Timestamp.kind = "NaT" THEN IntZero
                           ELSE @[i].Timestamp,
             vals |-> [c \in DOMAIN @[i].vals |->
                          IF IsNA(@[i].vals[c]) THEN Zero ELSE @[i].vals[c]]]]]

\* the concatenation of the sequences f[1], ..., f[n]
RECURSIVE Flatten(_, _)
Flatten(f, n) == IF n = 0 THEN <<>> ELSE Flatten(f, n - 1) \o f[n]

\* the column names of pd.merge(left, right, on="Timestamp"): a name on both
\* sides takes the suffix _x on the left and _y on the right
MergeLeftNames(left, right) ==
    LET lc == ValueCols(left)
        both == Range(lc) \cap Range(ValueCols(right))
    IN  [i \in DOMAIN lc |-> IF lc[i] \in both THEN lc[i] \o "_x" ELSE lc[i]]

MergeRightNames(left, right) ==
    LET rc == ValueCols(right)
        both == Range(ValueCols(left)) \cap Range(rc)
    IN  [i \in DOMAIN rc |-> IF rc[i] \in both THEN rc[i] \o "_y" ELSE rc[i]]

\* the suffixes would give two columns one name: pandas raises MergeError
MergeRaises(left, right) ==
    LET names == MergeLeftNames(left, right) \o MergeRightNames(left, right)
    IN  Cardinality(Range(names)) # Len(names)

\* pd.merge(left, right, on="Timestamp", how="outer"): every pair of a left
\* and a right row of one timestamp (missing keys match each other), every
\* unmatched row of either side with NaN for the other side's columns, the
\* keys in sorted order
merge_outer(left, right) ==
    LET lc == ValueCols(left)
        rc == ValueCols(right)
        ln == MergeLeftNames(left, right)
        rn == MergeRightNames(left, right)
        Join(t, lv, rv) ==
            [Timestamp |-> t,
             vals |-> [c \in Range(ln) \cup Range(rn) |->
                 IF c \in Range(ln)
                 THEN lv[lc[CHOOSE i \in DOMAIN ln : ln[i] = c]]
                 ELSE rv[rc[CHOOSE j \in DOMAIN rn : rn[j] = c]]]]
        NoLeft == [c \in Range(lc) |-> NaN]
        NoRight == [c \in Range(rc) |-> NaN]
        Matches(l) ==
            SelectSeq(right.rows, LAMBDA r : r.Timestamp = l.Timestamp)
        FromLeft(l) ==
            IF Matches(l) = <<>> THEN <<Join(l.Timestamp, l.vals, NoRight)>>
            ELSE [j \in DOMAIN Matches(l) |->
                     Join(l.Timestamp, l.vals, Matches(l)[j].vals)]
        RightOnly ==
            SelectSeq(right.rows, LAMBDA r :
                \A i \in DOMAIN left.rows : left.rows[i].Timestamp # r.Timestamp)
    IN  [cols |-> <<"Timestamp">> \o ln \o rn,
         rows |-> SortRows(
             Flatten([i \in DOMAIN left.rows |-> FromLeft(left.rows[i])],
                     Len(left.rows))
             \o [j \in DOMAIN RightOnly |->
                    Join(RightOnly[j].Timestamp, NoLeft, RightOnly[j].vals)])]

\* ------------------------------------------------- 4.2 node stream normalizer
\* Series.str.contains(pat, na=False) on one cell of text tokens
str_contains(cell, pat) ==
    IF cell.kind # "str" THEN FALSE
    ELSE \E i \in DOMAIN cell.chars : cell.chars[i] = pat

\* the filter without its first statement
status_filter_valid_only(rows) ==
    SelectSeq(rows, LAMBDA r : str_contains(r.Status, "Valid"))

\* the two status filters: no "Invalid" marker, then a "Valid" marker
status_filter(rows) ==
    LET notInvalid ==
            SelectSeq(rows, LAMBDA r : ~str_contains(r.Status, "Invalid"))
    IN  SelectSeq(notInvalid, LAMBDA r : str_contains(r.Status, "Valid"))

\* one CSV file of node_name, from read_csv to the two-column frame: the
\* timestamps coerced, the rows filtered on status, the value extracted
node_frame(raw, node_name) ==
    LET kept == status_filter(
            [i \in DOMAIN raw |->
                [raw[i] EXCEPT !.Timestamp = to_datetime(@)]])
    IN  [cols |-> <<"Timestamp", node_name>>,
         rows |-> [i \in DOMAIN kept |->
            [Timestamp |-> kept[i].Timestamp,
             vals |-> [c \in {node_name} |->
                          extract_drone_value(kept[i].DroneProb)]]]]

\* df["DroneProb"].apply(extract_drone_value) raises on some retained row
extract_raises(raw) ==
    \E i \in DOMAIN raw :
        /\ status_filter(<<raw[i]>>) # <<>>
        /\ extract_drone_value(raw[i].DroneProb) = ValueError

\* df[column].dropna().tolist() of the retained rows of one file, the
\* column converted by to_numeric
kept_numbers(raw, column) ==
    LET kept == status_filter(raw)
        cells == [i \in DOMAIN kept |-> to_numeric(kept[i][column])]
    IN  SelectSeq(cells, LAMBDA v : ~IsNA(v))

\* ------------------------------------------------------------------- state
VARIABLES
    variant,        \* which script runs: "2D" or "3D"
    pc,             \* the section the script is in
    raised,         \* the exception that ended the run, "" if none
    printed,        \* the messages printed on the way out
    node_folders,   \* the node folders of the data folder, in listing order
    folder_idx,     \* the folder the outer loop is in (0 before the first)
    files_read,     \* CSV files read so far
    node_data,      \* the accumulated node table
    series,         \* per node, the rows its files contributed (history)
    drone_data,     \* the retained GPS messages
    df_drone,       \* the telemetry table
    df_final,       \* the aligned table
    output_file,    \* the CSV written by section 4
    node_latitudes, \* 2D: the latitudes of the current folder's retained rows
    node_longitudes,    \* 2D: their longitudes
    node_avg_locations, \* 2D: per node, its mean latitude and longitude
    figure,         \* what section 5 has drawn
    x_in,           \* the argument of a call of extract_drone_value
    x_absent,       \* what that copy of the function returns for no match
    x_out,          \* the result of the call
    f_df,           \* the rows of one file as the status filter finds them
    f_kept,         \* the rows the status filter retains
    dataframes,     \* viewer: the files of the loaded folder, by name
    current_index,  \* viewer: the file on display
    total_files,    \* viewer: the number of files loaded
    show_invalid_points,    \* viewer: the state of the toggle
    folder_selected,    \* viewer: the folder chosen last, "" for None
    event,          \* viewer: the handler that ran last
    indexed,        \* viewer: <<i>> when that handler read dataframes[i]
    page_text,      \* viewer: <<page, of>> as drawn last, <<>> for None
    viewer_raised   \* viewer: the exception that handler ended with, or ""

viewerVars ==
    <<dataframes, current_index, total_files, show_invalid_points,
      folder_selected, event, indexed, page_text, viewer_raised>>

unitVars == <<x_in, x_absent, x_out, f_df, f_kept, viewerVars>>

vars ==
    <<variant, pc, raised, printed, node_folders, folder_idx, files_read,
      node_data, series, drone_data, df_drone, df_final, output_file,
      node_latitudes, node_longitudes, node_avg_locations, figure, unitVars>>

nodeVars ==
    <<node_folders, folder_idx, files_read, node_data, series,
      node_latitudes, node_longitudes, node_avg_locations>>
droneVars == <<drone_data, df_drone>>

\* ------------------------------------------------------------------ inputs
NodeName(i) == "node" \o <<"1", "2", "3", "4", "5", "6", "7", "8", "9">>[i]
NodeNames == {NodeName(i) : i \in 1..MaxNodes}

\* the listings os.listdir can give, up to a renaming of the folders: the
\* scripts read a folder name only to name its column
Listings == {[i \in 1..n |-> NodeName(i)] : n \in 0..MaxNodes}

NodeTimes == {Datetime(gps_epoch.day, 1000 * k) : k \in 0..MaxTick}

\* the raw rows of a node CSV, columns 7, 4, 9, 5 and 6, with the latitude
\* cell among lats
RowsWith(lats) ==
    [Timestamp : NodeTimes \cup {BadDate},
     DroneProb : {Text(<<"drone:", ".", "7">>), Text(<<"x">>),
                  Text(<<"drone:", ".">>)},
     Status : {Text(<<"Valid">>), Text(<<"Invalid">>)},
     Latitude : lats,
     Longitude : {Text(<<"7", "0">>)}]

NodeRows == RowsWith({Text(<<"7">>), Text(<<"x">>)})

\* the files the node section is checked on: at most MaxRows rows, all with
\* one latitude
NodeFiles == UNION {[1..n -> RowsWith({Text(<<"7">>)})] : n \in 0..MaxRows}

\* the files the whole-pipeline specification reads: at most MaxPipeRows rows
ShortFiles == UNION {[1..n -> NodeRows] : n \in 0..MaxPipeRows}

\* the fields of a decoded GPS message
AllKeys == {"GMS", "GWk", "Lat", "Lng", "Alt"}

\* milliseconds into the week: on the node ticks 0, 2, ... once the leap
\* seconds are taken off
GMSValues == {0} \cup {leap_seconds * 1000 + 2000 * k : k \in 0..(MaxTick \div 2)}

FullMsgs ==
    [keys : {AllKeys}, GWk : 0..MaxWeek, GMS : GMSValues,
     Lat : {400000000, 400000001}, Lng : {-750000000}, Alt : {12345}]

\* msg.to_dict() of the messages recv_match can return: complete ones, one
\* without altitude, one without the time of week
GpsMsgs ==
    LET some == {x \in FullMsgs : x.GWk = 0 /\ x.GMS = 0 /\ x.Lat = 400000000}
    IN  FullMsgs
        \cup {[m EXCEPT !.keys = AllKeys \ {"Alt"}] : m \in some}
        \cup {[m EXCEPT !.keys = AllKeys \ {"GMS"}] : m \in some}

NotWritten == [written |-> FALSE, table |-> EmptyFrame]

\* the figure before section 5
NoFigure ==
    [drawn |-> FALSE, marks |-> <<>>, MaxNode |-> <<>>, vmin |-> NaN,
     vmax |-> NaN, points |-> <<>>]

\* -------------------------------------------------------------------- Init
\* the globals of the viewer as the module sets them, no handler run yet
ViewerStart ==
    /\ dataframes = <<>>
    /\ current_index = 0
    /\ total_files = 0
    /\ show_invalid_points = FALSE
    /\ folder_selected = ""
    /\ event = "none"
    /\ indexed = <<>>
    /\ page_text = <<>>
    /\ viewer_raised = ""

\* no call of the extractor or of the filter on its own is under way
UnitsIdle ==
    /\ ViewerStart
    /\ x_in = NoText
    /\ x_absent = NaN
    /\ x_out = NaN
    /\ f_df = <<>>
    /\ f_kept = <<>>

Init ==
    /\ UnitsIdle
    /\ variant \in {"2D", "3D"}
    /\ pc = "nodes"
    /\ raised = ""
    /\ printed = <<>>
    /\ node_folders \in Listings
    /\ folder_idx = 0
    /\ files_read = 0
    /\ node_data = EmptyFrame
    /\ series = [n \in Range(node_folders) |-> <<>>]
    /\ drone_data = <<>>
    /\ df_drone = EmptyFrame
    /\ df_final = EmptyFrame
    /\ output_file = NotWritten
    /\ node_latitudes = <<>>
    /\ node_longitudes = <<>>
    /\ node_avg_locations = <<>>
    /\ figure = NoFigure

\* an uncaught exception ends the run
Crash(exc) ==
    /\ pc' = "crashed"
    /\ raised' = exc

\* --------------------------------------------------- section 1: node data
\* node_avg_locations once the files of the current folder are read: the
\* folder's means are stored when it has a latitude and a longitude
Averaged ==
    IF variant = "2D" /\ folder_idx >= 1
       /\ node_latitudes # <<>> /\ node_longitudes # <<>>
    THEN Append(node_avg_locations,
                [node |-> node_folders[folder_idx],
                 avg_lat |-> mean(node_latitudes),
                 avg_lon |-> mean(node_longitudes)])
    ELSE node_avg_locations

\* for folder in node_folders: the body of the current folder ends with its
\* averages and the loop moves to the next folder, with its lists empty
NextFolder ==
    /\ pc = "nodes"
    /\ folder_idx < Len(node_folders)
    /\ folder_idx' = folder_idx + 1
    /\ node_avg_locations' = Averaged
    /\ node_latitudes' = <<>>
    /\ node_longitudes' = <<>>
    /\ UNCHANGED <<unitVars, variant, pc, raised, printed, node_folders, files_read,
                   node_data, series, droneVars, df_final, output_file, figure>>

\* one CSV file of the current folder is read, filtered and merged
ProcessFile(raw) ==
    /\ pc = "nodes"
    /\ folder_idx >= 1
    /\ files_read < MaxFiles
    /\ LET node_name == node_folders[folder_idx]
           df == node_frame(raw, node_name)
           lats == IF variant = "2D"
                   THEN node_latitudes \o kept_numbers(raw, "Latitude")
                   ELSE node_latitudes
           lons == IF variant = "2D"
                   THEN node_longitudes \o kept_numbers(raw, "Longitude")
                   ELSE node_longitudes
       IN  IF extract_raises(raw)
           THEN /\ Crash("ValueError")
                /\ UNCHANGED <<files_read, node_data, series, node_latitudes,
                               node_longitudes>>
           ELSE IF ~IsEmpty(node_data) /\ MergeRaises(node_data, df)
           THEN /\ Crash("MergeError")
                /\ node_latitudes' = lats
                /\ node_longitudes' = lons
                /\ UNCHANGED <<files_read, node_data, series>>
           ELSE /\ node_data' = IF IsEmpty(node_data) THEN df
                                ELSE merge_outer(node_data, df)
                /\ series' = [series EXCEPT ![node_name] = @ \o df.rows]
                /\ files_read' = files_read + 1
                /\ node_latitudes' = lats
                /\ node_longitudes' = lons
                /\ UNCHANGED <<pc, raised>>
    /\ UNCHANGED <<unitVars, variant, printed, node_folders, folder_idx, droneVars,
                   df_final, output_file, node_avg_locations, figure>>

\* the last folder ends with its averages; after the loop comes
\* sort_values("Timestamp"), which raises KeyError on a frame without that
\* column, then fillna(0)
SortFill ==
    /\ pc = "nodes"
    /\ folder_idx = Len(node_folders)
    /\ node_avg_locations' = Averaged
    /\ IF \A i \in DOMAIN node_data.cols : node_data.cols[i] # "Timestamp"
       THEN Crash("KeyError") /\ UNCHANGED node_data
       ELSE /\ node_data' = fillna(sort_values(node_data))
            /\ pc' = "drone"
            /\ UNCHANGED raised
    /\ UNCHANGED <<unitVars, variant, printed, node_folders, folder_idx, files_read,
                   series, droneVars, df_final, output_file, node_latitudes,
                   node_longitudes, figure>>

NextNodes ==
    \/ NextFolder
    \/ \E raw \in NodeFiles : ProcessFile(raw)
    \/ SortFill

SpecNodes == Init /\ [][NextNodes]_vars

\* ------------------------------------------- 4.4 telemetry decoder adapter
\* the fields a message must carry to be kept
RequiredKeys(v) ==
    IF v = "3D" THEN {"GMS", "GWk", "Lat", "Lng", "Alt"}
    ELSE {"GMS", "GWk", "Lat", "Lng"}

\* the conversion with the leap seconds added instead of taken off
GpsToUtc_leap_added(gwk, gms) ==
    DatetimeAdd(gps_epoch, timedelta(gwk, gms + (leap_seconds * 1000)))

\* gps_epoch + timedelta(weeks=GWk, milliseconds=GMS - leap_seconds * 1000)
GpsToUtc(gwk, gms) ==
    DatetimeAdd(gps_epoch, timedelta(gwk, gms - (leap_seconds * 1000)))

\* the field k of message m as a DataFrame cell
Cell(m, k) ==
    IF k \notin m.keys THEN NaN
    ELSE IF k = "GMS" THEN Float(m.GMS, 1)
    ELSE IF k = "GWk" THEN Float(m.GWk, 1)
    ELSE IF k = "Lat" THEN Float(m.Lat, 1)
    ELSE IF k = "Lng" THEN Float(m.Lng, 1)
    ELSE Float(m.Alt, 1)

\* x / d for a float x and a positive integer d
FloatDiv(x, d) == IF x.kind = "float" THEN Float(x.num, x.den * d) ELSE x

\* the columns pd.DataFrame(drone_data) has: the keys of the messages
KeyOrder == <<"GMS", "GWk", "Lat", "Lng", "Alt">>
MsgCols(msgs) ==
    SelectSeq(KeyOrder, LAMBDA k : \E i \in DOMAIN msgs : k \in msgs[i].keys)

\* df_drone of the 2D script: every message field, the timestamp, and the
\* latitude and longitude as decoded
DroneFrame2D(msgs) ==
    [cols |-> MsgCols(msgs) \o <<"Timestamp", "Latitude", "Longitude">>,
     rows |-> [i \in DOMAIN msgs |->
        [Timestamp |-> GpsToUtc(msgs[i].GWk, msgs[i].GMS),
         vals |-> [c \in Range(MsgCols(msgs)) \cup {"Latitude", "Longitude"} |->
            IF c = "Latitude" THEN Cell(msgs[i], "Lat")
            ELSE IF c = "Longitude" THEN Cell(msgs[i], "Lng")
            ELSE Cell(msgs[i], c)]]]]

\* the 3D table with the altitude left in centimeters
DroneFrame3D_alt_cm(msgs) ==
    [cols |-> <<"Timestamp", "Latitude", "Longitude", "Altitude">>,
     rows |-> [i \in DOMAIN msgs |->
        [Timestamp |-> GpsToUtc(msgs[i].GWk, msgs[i].GMS),
         vals |-> [c \in {"Latitude", "Longitude", "Altitude"} |->
            IF c = "Latitude" THEN FloatDiv(Cell(msgs[i], "Lat"), Pow10(7))
            ELSE IF c = "Longitude" THEN FloatDiv(Cell(msgs[i], "Lng"), Pow10(7))
            ELSE Cell(msgs[i], "Alt")]]]]

\* df_drone of the 3D script: the timestamp, latitude and longitude divided
\* by 1e7, altitude divided by 100
DroneFrame3D(msgs) ==
    [cols |-> <<"Timestamp", "Latitude", "Longitude", "Altitude">>,
     rows |-> [i \in DOMAIN msgs |->
        [Timestamp |-> GpsToUtc(msgs[i].GWk, msgs[i].GMS),
         vals |-> [c \in {"Latitude", "Longitude", "Altitude"} |->
            IF c = "Latitude" THEN FloatDiv(Cell(msgs[i], "Lat"), Pow10(7))
            ELSE IF c = "Longitude" THEN FloatDiv(Cell(msgs[i], "Lng"), Pow10(7))
            ELSE FloatDiv(Cell(msgs[i], "Alt"), 100)]]]]

DroneFrame(v, msgs) == IF v = "3D" THEN DroneFrame3D(msgs) ELSE DroneFrame2D(msgs)

\* --------------------------------------------------------- 4.6 asof aligner
\* index of the last row of right at or before t (0 if none)
Backward(right, t) ==
    LET at == {j \in DOMAIN right : TsLeq(right[j].Timestamp, t)}
    IN  IF at = {} THEN 0 ELSE CHOOSE j \in at : \A k \in at : k <= j

\* index of the first row of right at or after t (0 if none)
Forward(right, t) ==
    LET at == {j \in DOMAIN right : TsLeq(t, right[j].Timestamp)}
    IN  IF at = {} THEN 0 ELSE CHOOSE j \in at : \A k \in at : j <= k

\* the nearest match with a tolerance of one second
Nearest_tolerance(right, t) ==
    LET b == Backward(right, t)
        f == Forward(right, t)
        near(j) == TdLeq(TsDist(right[j].Timestamp, t), [days |-> 0, ms |-> 1000])
        j == IF b # 0 /\ f # 0
             THEN IF TdLeq(TsDiff(right[b].Timestamp, t), TsDiff(t, right[f].Timestamp))
                  THEN b ELSE f
             ELSE IF b # 0 THEN b ELSE f
    IN  IF j # 0 /\ near(j) THEN j ELSE 0

\* the nearest match with ties going to the later row
Nearest_tie_forward(right, t) ==
    LET b == Backward(right, t)
        f == Forward(right, t)
    IN  IF b # 0 /\ f # 0
        THEN IF TdLess(TsDiff(right[b].Timestamp, t), TsDiff(t, right[f].Timestamp))
             THEN b ELSE f
        ELSE IF b # 0 THEN b ELSE f

\* direction="nearest": the backward match unless the forward one is
\* strictly nearer
Nearest(right, t) ==
    LET b == Backward(right, t)
        f == Forward(right, t)
    IN  IF b # 0 /\ f # 0
        THEN IF TdLeq(TsDiff(right[b].Timestamp, t), TsDiff(t, right[f].Timestamp))
             THEN b ELSE f
        ELSE IF b # 0 THEN b ELSE f

\* pd.merge_asof(left, right, on="Timestamp", direction="nearest"), both
\* sorted: one row per left row, with the columns of its match in right
merge_asof(left, right) ==
    LET rc == Range(ValueCols(right))
        lc == Range(ValueCols(left))
    IN  [cols |-> left.cols \o ValueCols(right),
         rows |-> [i \in DOMAIN left.rows |->
            LET l == left.rows[i]
                j == Nearest(right.rows, l.Timestamp)
            IN  [Timestamp |-> l.Timestamp,
                 vals |-> [c \in lc \cup rc |->
                    IF c \in lc THEN l.vals[c]
                    ELSE IF j = 0 THEN NaN ELSE right.rows[j].vals[c]]]]]

\* merge_asof refuses a key column that is not of one datetime type
AsofRaises(left) ==
    \E i \in DOMAIN left.rows : left.rows[i].Timestamp.kind # "datetime"

\* ------------------------------------------------ section 2: drone data
\* os.path.exists(bin_file)
CheckBin(exists) ==
    /\ pc = "drone"
    /\ IF exists
       THEN pc' = "recv" /\ UNCHANGED printed
       ELSE /\ pc' = "exit"
            /\ printed' = Append(printed, "Error: Drone log file not found!")
    /\ UNCHANGED <<unitVars, variant, raised, nodeVars, droneVars, df_final, output_file,
                   figure>>

\* recv_match returns a GPS message: kept when it has the required fields
RecvMatch(msg) ==
    /\ pc = "recv"
    /\ Len(drone_data) < MaxMsgs
    /\ drone_data' = IF RequiredKeys(variant) \subseteq msg.keys
                     THEN Append(drone_data, msg) ELSE drone_data
    /\ UNCHANGED <<unitVars, variant, pc, raised, printed, nodeVars, df_drone, df_final,
                   output_file, figure>>

\* recv_match returns None: the loop ends, the telemetry table is built
EndOfStream ==
    /\ pc = "recv"
    /\ IF drone_data = <<>>
       THEN /\ pc' = "exit"
            /\ printed' = Append(printed, "No drone GPS data found.")
            /\ UNCHANGED df_drone
       ELSE /\ pc' = "merge"
            /\ df_drone' = DroneFrame(variant, drone_data)
            /\ UNCHANGED printed
    /\ UNCHANGED <<unitVars, variant, raised, nodeVars, drone_data, df_final, output_file,
                   figure>>

\* ---------------------------------------------------- section 3: merge
\* the call with its two tables in the other order
Align_swapped(nodes, drone) ==
    merge_asof(sort_values(drone), sort_values(nodes))

\* df_final = pd.merge_asof(node table sorted, telemetry table sorted)
Align(nodes, drone) ==
    merge_asof(sort_values(nodes), sort_values(drone))

MergeAsof ==
    /\ pc = "merge"
    /\ IF AsofRaises(node_data)
       THEN Crash("MergeError") /\ UNCHANGED df_final
       ELSE /\ df_final' = Align(node_data, df_drone)
            /\ pc' = "save"
            /\ UNCHANGED raised
    /\ UNCHANGED <<unitVars, variant, printed, nodeVars, droneVars, output_file, figure>>

\* ------------------------------------------------- section 4: save to CSV
SaveCsv ==
    /\ pc = "save"
    /\ output_file' = [written |-> TRUE, table |-> df_final]
    /\ printed' = Append(printed, "Data successfully merged and saved")
    /\ pc' = "plot"
    /\ UNCHANGED <<unitVars, variant, raised, nodeVars, droneVars, df_final, figure>>

\* ------------------------------------------------ section 5: plot the data
\* col.startswith("node"): a folder name, or one with the suffixes a merge
\* gives to a name both of its tables have
NodePrefixed ==
    {(NodeName(i) \o a) \o b :
        i \in 1..9, a \in {"", "_x", "_y"}, b \in {"", "_x", "_y"}}

startswith_node(col) == col \in NodePrefixed

node_columns(df) == SelectSeq(df.cols, startswith_node)

\* df[node_columns].max(axis=1)
MaxNodeColumn(df) ==
    LET nc == node_columns(df)
    IN  [i \in DOMAIN df.rows |->
            SeriesMax([k \in DOMAIN nc |-> df.rows[i].vals[nc[k]]])]

\* every cell of the node columns
NodeCells(df) ==
    LET nc == node_columns(df)
    IN  [p \in (DOMAIN df.rows) \X (DOMAIN nc) |-> df.rows[p[1]].vals[nc[p[2]]]]

\* min_val and max_val: of the MaxNode column in the 2D script, of all node
\* columns in the 3D script
min_val(v, df) ==
    IF v = "3D" THEN SeriesMin(NodeCells(df)) ELSE SeriesMin(MaxNodeColumn(df))

max_val(v, df) ==
    IF v = "3D" THEN SeriesMax(NodeCells(df)) ELSE SeriesMax(MaxNodeColumn(df))

\* the limits without the test for equal ends
Limits_unguarded(lo, hi) == [vmin |-> lo, vmax |-> hi]

\* if min_val == max_val: min_val, max_val = 0, 1
Limits(lo, hi) ==
    IF PyEq(lo, hi) THEN [vmin |-> Zero, vmax |-> Float(1, 1)]
    ELSE [vmin |-> lo, vmax |-> hi]

\* df["MaxNode"] = ...
WithMaxNode(df) ==
    [cols |-> Append(df.cols, "MaxNode"),
     rows |-> [i \in DOMAIN df.rows |->
        [Timestamp |-> df.rows[i].Timestamp,
         vals |-> [c \in DOMAIN df.rows[i].vals \cup {"MaxNode"} |->
            IF c = "MaxNode" THEN MaxNodeColumn(df)[i]
            ELSE df.rows[i].vals[c]]]]]

\* the points scattered with latitude along x and longitude along y
Points_swapped(v, df) ==
    [i \in DOMAIN df.rows |->
        [x |-> df.rows[i].vals["Latitude"],
         y |-> df.rows[i].vals["Longitude"],
         z |-> IF v = "3D" THEN df.rows[i].vals["Altitude"] ELSE NaN]]

\* the points of the scatter: longitude along x, latitude along y, and in
\* the 3D script altitude along z
Points(v, df) ==
    [i \in DOMAIN df.rows |->
        [x |-> df.rows[i].vals["Longitude"],
         y |-> df.rows[i].vals["Latitude"],
         z |-> IF v = "3D" THEN df.rows[i].vals["Altitude"] ELSE NaN]]

\* the 2D script marks each node's average location with an X
Marks(v, locations) ==
    IF v = "3D" THEN <<>>
    ELSE [k \in DOMAIN locations |->
            [node |-> locations[k].node,
             x |-> locations[k].avg_lon, y |-> locations[k].avg_lat]]

\* the 3D script plots only a table with the three position columns and a
\* node column
CanPlot(v, df) ==
    \/ v = "2D"
    \/ /\ {"Longitude", "Latitude", "Altitude"} \subseteq Range(df.cols)
       /\ node_columns(df) # <<>>

Plot ==
    /\ pc = "plot"
    /\ pc' = "done"
    /\ IF CanPlot(variant, df_final)
       THEN /\ df_final' = WithMaxNode(df_final)
            /\ figure' =
                  LET lim == Limits(min_val(variant, df_final),
                                    max_val(variant, df_final))
                  IN  [drawn |-> TRUE,
                       marks |-> Marks(variant, node_avg_locations),
                       MaxNode |-> MaxNodeColumn(df_final),
                       vmin |-> lim.vmin, vmax |-> lim.vmax,
                       points |-> Points(variant, df_final)]
            /\ UNCHANGED printed
       ELSE /\ printed' = Append(printed, "No GPS data available for plotting.")
            /\ UNCHANGED <<df_final, figure>>
    /\ UNCHANGED <<unitVars, variant, raised, nodeVars, droneVars, output_file>>

Next ==
    \/ NextFolder
    \/ \E raw \in ShortFiles : ProcessFile(raw)
    \/ SortFill
    \/ \E exists \in BOOLEAN : CheckBin(exists)
    \/ \E msg \in GpsMsgs : RecvMatch(msg)
    \/ EndOfStream
    \/ MergeAsof
    \/ SaveCsv
    \/ Plot

Spec == Init /\ [][Next]_vars

\* ------------------------------------------- the value extractor by itself
\* the pipeline state in which no script runs
Parked ==
    /\ variant = "2D"
    /\ raised = ""
    /\ printed = <<>>
    /\ node_folders = <<>>
    /\ folder_idx = 0
    /\ files_read = 0
    /\ node_data = EmptyFrame
    /\ series = [n \in {} |-> <<>>]
    /\ drone_data = <<>>
    /\ df_drone = EmptyFrame
    /\ df_final = EmptyFrame
    /\ output_file = NotWritten
    /\ node_latitudes = <<>>
    /\ node_longitudes = <<>>
    /\ node_avg_locations = <<>>
    /\ figure = NoFigure

pipeVars ==
    <<variant, raised, printed, nodeVars, droneVars, df_final, output_file,
      figure>>

Texts == UNION {[1..n -> Alphabet] : n \in 0..MaxText}

\* what a cell handed to the extractor can be: a text, nan, None
ExtractInputs == {Text(t) : t \in Texts} \cup {NoText, NoneText}

InitExtract ==
    /\ Parked
    /\ pc = "extract"
    /\ ViewerStart
    /\ x_in \in ExtractInputs
    /\ x_absent \in {NaN, PyNone}
    /\ x_out = NaN
    /\ f_df = <<>>
    /\ f_kept = <<>>

\* one call extract_drone_value(x_in)
Extract ==
    /\ pc = "extract"
    /\ x_out' = extract_drone_value_as(x_in, x_absent)
    /\ pc' = "extracted"
    /\ UNCHANGED <<pipeVars, viewerVars, x_in, x_absent, f_df, f_kept>>

NextExtract == Extract

SpecExtract == InitExtract /\ [][NextExtract]_vars

\* -------------------------------------------- the status filter by itself
Markers == {"Valid", "Invalid", "x"}

\* a status cell: empty (nan), or a text of markers and other words
StatusCells ==
    {NoText} \cup {Text(t) : t \in UNION {[1..n -> Markers] : n \in 0..MaxStatus}}

\* the rows of a file after the conversions of its timestamp, latitude and
\* longitude: any of them may have failed to parse
FilterRows ==
    [Timestamp : {Datetime(gps_epoch.day, 0), NaT},
     DroneProb : {Text(<<"drone:", ".", "7">>), NoText},
     Status : StatusCells,
     Latitude : {Float(40, 1), NaN},
     Longitude : {Float(-75, 1), NaN}]

InitFilter ==
    /\ Parked
    /\ pc = "filter"
    /\ x_in = NoText
    /\ x_absent = NaN
    /\ x_out = NaN
    /\ ViewerStart
    /\ f_df \in UNION {[1..n -> FilterRows] : n \in 0..MaxFilterRows}
    /\ f_kept = <<>>

\* the two filter statements on f_df
Filter ==
    /\ pc = "filter"
    /\ f_kept' = status_filter(f_df)
    /\ pc' = "filtered"
    /\ UNCHANGED <<pipeVars, viewerVars, x_in, x_absent, x_out, f_df>>

NextFilter == Filter

SpecFilter == InitFilter /\ [][NextFilter]_vars

\* --------------------------------------------- the interactive viewer
\* src/Path Visualizer Prototype/PathProbVisual_old.py: the handlers of the
\* figure run one at a time; an exception a handler raises is reported by
\* the toolkit and the figure goes on taking events
FileName(i) == "f" \o <<"1", "2", "3", "4", "5", "6", "7", "8", "9">>[i]

\* sorted(glob.glob(...)): the CSV files of a folder in order of name
SortedFiles(S) ==
    [k \in 1..Cardinality(S) |->
        FileName(CHOOSE i \in S : Cardinality({j \in S : j < i}) = k - 1)]

FolderListings == {SortedFiles(S) : S \in SUBSET (1..MaxViewerFiles)}

\* the folders the dialog can return: "" when it is cancelled, "outside"
\* for a folder that is not under ./data
Selections == {"", "outside", "data/a", "data/b"}

\* i % n as Python computes it; n = 0 raises ZeroDivisionError
PyMod(i, n) == i % n

\* the index a key leads to, without the wrap
KeyIndex_unwrapped(key, i, n) ==
    IF key = "right" THEN i + 1 ELSE i - 1

\* the index the right and left keys lead to
KeyIndex(key, i, n) ==
    IF key = "right" THEN PyMod(i + 1, n) ELSE PyMod(i - 1, n)

\* dataframes[index] of a non-empty list: Python takes -len .. len - 1
IndexRaises(index) == index >= Len(dataframes') \/ index < -Len(dataframes')

\* plot_csv(index), the file read again; readable says whether that read
\* succeeds
plot_csv(index, readable) ==
    IF dataframes' = <<>>
    THEN /\ indexed' = <<>>
         /\ viewer_raised' = ""
         /\ UNCHANGED page_text
    ELSE IF IndexRaises(index)
    THEN /\ indexed' = <<index>>
         /\ viewer_raised' = "IndexError"
         /\ UNCHANGED page_text
    ELSE IF ~readable
    THEN /\ indexed' = <<index>>
         /\ viewer_raised' = "ReadError"
         /\ UNCHANGED page_text
    ELSE /\ indexed' = <<index>>
         /\ viewer_raised' = ""
         /\ page_text' = <<index + 1, total_files'>>

\* load_folder(folder_path): csv_files are the files found, all_read says
\* whether read_and_prepare_csv succeeds on each of them
load_folder(csv_files, all_read, readable) ==
    IF ~all_read
    THEN /\ viewer_raised' = "ReadError"
         /\ indexed' = <<>>
         /\ UNCHANGED <<dataframes, current_index, total_files, page_text>>
    ELSE /\ dataframes' = csv_files
         /\ current_index' = 0
         /\ total_files' = Len(csv_files)
         /\ IF Len(csv_files) = 0
            THEN /\ page_text' = <<>>
                 /\ indexed' = <<>>
                 /\ viewer_raised' = ""
            ELSE plot_csv(0, readable)

\* the Browse button: a cancelled dialog or a folder outside ./data returns;
\* any other folder is selected and loaded
on_browse_clicked(selection, csv_files, all_read, readable) ==
    /\ pc = "viewer"
    /\ event' = "browse"
    /\ IF selection \in {"", "outside"}
       THEN /\ indexed' = <<>>
            /\ viewer_raised' = ""
            /\ UNCHANGED <<dataframes, current_index, total_files, page_text,
                           folder_selected>>
       ELSE /\ folder_selected' = selection
            /\ load_folder(csv_files, all_read, readable)
    /\ UNCHANGED <<pipeVars, pc, show_invalid_points, x_in, x_absent, x_out, f_df,
                   f_kept>>

\* the Toggle Invalid Points button
on_toggle_invalid_points(readable) ==
    /\ pc = "viewer"
    /\ event' = "toggle"
    /\ show_invalid_points' = ~show_invalid_points
    /\ UNCHANGED <<dataframes, current_index, total_files>>
    /\ plot_csv(current_index, readable)
    /\ UNCHANGED <<pipeVars, pc, folder_selected, x_in, x_absent, x_out, f_df, f_kept>>

\* a key of the keyboard
on_key_press(key, readable) ==
    /\ pc = "viewer"
    /\ event' = key
    /\ UNCHANGED <<dataframes, total_files>>
    /\ IF key \in {"right", "left"} /\ dataframes # <<>>
       THEN IF total_files = 0
            THEN /\ viewer_raised' = "ZeroDivisionError"
                 /\ indexed' = <<>>
                 /\ UNCHANGED <<current_index, page_text>>
            ELSE /\ current_index' = KeyIndex(key, current_index, total_files)
                 /\ plot_csv(current_index', readable)
       ELSE /\ indexed' = <<>>
            /\ viewer_raised' = ""
            /\ UNCHANGED <<current_index, page_text>>
    /\ UNCHANGED <<pipeVars, pc, show_invalid_points, folder_selected, x_in, x_absent,
                   x_out, f_df, f_kept>>

InitViewer ==
    /\ Parked
    /\ pc = "viewer"
    /\ ViewerStart
    /\ x_in = NoText
    /\ x_absent = NaN
    /\ x_out = NaN
    /\ f_df = <<>>
    /\ f_kept = <<>>

NextViewer ==
    \/ \E selection \in Selections : \E csv_files \in FolderListings :
          \E all_read \in BOOLEAN : \E readable \in BOOLEAN :
             on_browse_clicked(selection, csv_files, all_read, readable)
    \/ \E readable \in BOOLEAN : on_toggle_invalid_points(readable)
    \/ \E key \in {"right", "left", "up"} : \E readable \in BOOLEAN :
          on_key_press(key, readable)

SpecViewer == InitViewer /\ [][NextViewer]_vars

\* ================================================================ claims
\* ------------------------------------------------------------------- C9
\* C9: the value extractor never raises: for every text and every non-text
\* input the call returns the parsed float or "absent".
C9_NeverRaises ==
    pc = "extracted" => x_out.kind \in {"float", "nan", "None"}

\* ------------------------------------------------------------------- C4
HasMarker(cell, m) ==
    cell.kind = "str" /\ \E i \in DOMAIN cell.chars : cell.chars[i] = m

C4_Accepted(r) ==
    HasMarker(r.Status, "Valid") /\ ~HasMarker(r.Status, "Invalid")

\* C4: a row is retained if and only if its status text contains "Valid"
\* and does not contain "Invalid"; a row with neither marker or without a
\* status is excluded; no other field of the row takes part.
C4_StatusFilter ==
    pc = "filtered" => f_kept = SelectSeq(f_df, C4_Accepted)

\* a row whose timestamp, probability, latitude and longitude are all
\* missing has been retained on its status
C4_Witness ==
    /\ pc = "filtered"
    /\ \E i \in DOMAIN f_kept :
        /\ f_kept[i].Timestamp = NaT
        /\ f_kept[i].DroneProb = NoText
        /\ f_kept[i].Latitude = NaN
        /\ f_kept[i].Longitude = NaN

\* ------------------------------------------------------------------ C10
\* C10: the timestamp of every retained message is 1980-01-06T00:00:00 plus
\* week_number weeks plus milliseconds_into_week milliseconds minus 18000
\* milliseconds: in integer milliseconds after the epoch,
\* 604800000 * week_number + ms_into_week - 18000.
C10_GpsTime ==
    \A i \in DOMAIN df_drone.rows :
        LET t == df_drone.rows[i].Timestamp
            m == drone_data[i]
        IN  /\ t.kind = "datetime"
            /\ t.ms >= 0 /\ t.ms < 86400000
            /\ (t.day - 722820) * 86400000 + t.ms
                   = 604800000 * m.GWk + m.GMS - 18000

\* the telemetry table holds a message of a later week and one that the
\* leap seconds move to the day before the epoch
C10_Witness ==
    /\ \E i \in DOMAIN df_drone.rows : drone_data[i].GWk >= 1
    /\ \E i \in DOMAIN df_drone.rows :
        drone_data[i].GMS < 18000 /\ df_drone.rows[i].Timestamp.day < 722820

\* ------------------------------------------------------------------- C8
\* C8: when the telemetry log is absent, or no telemetry message survives,
\* or no node row survives, the run ends before the output table is
\* written: the output file is never written in such a run.
C8_NoOutputWithoutData ==
    output_file.written =>
        /\ drone_data # <<>>
        /\ \E n \in DOMAIN series : series[n] # <<>>

\* ------------------------------------------------------------------- C5
\* C5: the value columns of the joint node table are exactly the discovered
\* node identifiers: one column per node, none missing, duplicated or
\* renamed.
C5_ColumnsAreNodes ==
    pc = "drone" =>
        /\ Range(ValueCols(node_data)) = Range(node_folders)
        /\ Len(ValueCols(node_data)) = Len(node_folders)

\* ------------------------------------------------------------------- C6
\* the timestamps the node series hold
SeriesTimes ==
    UNION {{series[n][i].Timestamp : i \in DOMAIN series[n]} : n \in DOMAIN series}

\* C6: the joint node table has strictly increasing timestamps, none twice,
\* and as many rows as there are distinct timestamps in the node series.
C6_StrictlyIncreasing ==
    (pc = "drone" /\ NaT \notin SeriesTimes) =>
        /\ \A i \in DOMAIN node_data.rows : \A j \in DOMAIN node_data.rows :
              i < j => TsLess(node_data.rows[i].Timestamp,
                              node_data.rows[j].Timestamp)
        /\ Len(node_data.rows) = Cardinality(SeriesTimes)

\* ------------------------------------------------------------------- C7
\* the values node n reports at time t, a reading without a probability
\* counted as the 0 it is filled to
SamplesAt(n, t) ==
    {IF IsNA(series[n][i].vals[n]) THEN Zero ELSE series[n][i].vals[n] :
        i \in {k \in DOMAIN series[n] : series[n][k].Timestamp = t}}

\* C7: the merged table is the outer union of the node series on equal
\* timestamps: every timestamp of every series is a row, the cell of a node
\* holds the node's value where the node has a sample at that timestamp and
\* 0 otherwise, no cell is filled before the union is complete, and the rows
\* are in ascending order of timestamp.
C7_OuterUnion ==
    /\ pc = "nodes" =>
          \A i \in DOMAIN node_data.rows : \A c \in DOMAIN node_data.rows[i].vals :
              node_data.rows[i].vals[c] # Zero
    /\ (pc = "drone" /\ NaT \notin SeriesTimes) =>
          /\ \A t \in SeriesTimes :
                \E i \in DOMAIN node_data.rows : node_data.rows[i].Timestamp = t
          /\ \A i \in DOMAIN node_data.rows : \A j \in DOMAIN node_data.rows :
                i < j => TsLeq(node_data.rows[i].Timestamp,
                               node_data.rows[j].Timestamp)
          /\ \A n \in DOMAIN series : \A i \in DOMAIN node_data.rows :
                series[n] # <<>> =>
                   /\ n \in DOMAIN node_data.rows[i].vals
                   /\ LET own == SamplesAt(n, node_data.rows[i].Timestamp)
                      IN  IF own = {} THEN node_data.rows[i].vals[n] = Zero
                          ELSE node_data.rows[i].vals[n] \in own

\* ------------------------------------------------------------ C1, C2, C3
\* the aligned table has been computed
Aligned == pc \in {"save", "plot"}

NodeCols == Range(ValueCols(node_data))
DroneCols == Range(ValueCols(df_drone))

\* the node values and the telemetry values an aligned row carries
NodePart(row) == [c \in NodeCols |-> row.vals[c]]
DronePart(row) == [c \in DroneCols |-> row.vals[c]]

\* the telemetry timestamps a and b are adjacent and t is midway between
Midway(a, t, b, others) ==
    /\ TsLess(a, t) /\ TsLess(t, b)
    /\ TsDiff(a, t) = TsDiff(t, b)
    /\ \A i \in DOMAIN others :
          ~(TsLess(a, others[i].Timestamp) /\ TsLess(others[i].Timestamp, b))

\* C1 as stated: the aligner's output has exactly one row per telemetry fix.
C1_OneRowPerFix ==
    Aligned => Len(df_final.rows) = Len(df_drone.rows)

\* C1 as amended: the aligner's output has exactly one row per row of the
\* joint node table, in the table's order, with that row's timestamp and
\* node values: no node row is dropped or duplicated.
C1_OneRowPerNodeRow ==
    Aligned =>
        /\ Len(df_final.rows) = Len(node_data.rows)
        /\ \A i \in DOMAIN df_final.rows :
              /\ df_final.rows[i].Timestamp = node_data.rows[i].Timestamp
              /\ NodePart(df_final.rows[i]) = node_data.rows[i].vals

\* two node rows were aligned with a single telemetry fix
C1_Witness ==
    Aligned /\ Len(df_final.rows) = 2 /\ Len(df_drone.rows) = 1

\* C2 as stated: every telemetry fix has an aligned row, which carries the
\* values of the node row nearest to the fix in time.
C2_FixGetsNearestNodeRow ==
    (Aligned /\ node_data.rows # <<>>) =>
        \A j \in DOMAIN df_drone.rows :
            \E i \in DOMAIN df_final.rows : \E k \in DOMAIN node_data.rows :
                /\ DronePart(df_final.rows[i]) = df_drone.rows[j].vals
                /\ NodePart(df_final.rows[i]) = node_data.rows[k].vals
                /\ \A k2 \in DOMAIN node_data.rows :
                      TdLeq(TsDist(node_data.rows[k].Timestamp,
                                   df_drone.rows[j].Timestamp),
                            TsDist(node_data.rows[k2].Timestamp,
                                   df_drone.rows[j].Timestamp))

\* C2 as amended: every aligned row (one per node row) carries the values of
\* a telemetry fix whose timestamp is nearest to the row's timestamp among
\* all fixes, however far that is.
C2_NodeRowGetsNearestFix ==
    Aligned =>
        \A i \in DOMAIN df_final.rows :
            \E j \in DOMAIN df_drone.rows :
                /\ DronePart(df_final.rows[i]) = df_drone.rows[j].vals
                /\ \A k \in DOMAIN df_drone.rows :
                      TdLeq(TsDist(df_drone.rows[j].Timestamp,
                                   df_final.rows[i].Timestamp),
                            TsDist(df_drone.rows[k].Timestamp,
                                   df_final.rows[i].Timestamp))

\* a node row was aligned with a fix more than six days away
C2_Witness ==
    /\ Aligned
    /\ \E i \in DOMAIN df_final.rows :
        /\ \A k \in DOMAIN df_drone.rows :
              TdLeq([days |-> 6, ms |-> 0],
                    TsDist(df_drone.rows[k].Timestamp, df_final.rows[i].Timestamp))
        /\ \E j \in DOMAIN df_drone.rows :
              DronePart(df_final.rows[i]) = df_drone.rows[j].vals

\* C3 as stated: a telemetry fix exactly midway between two adjacent node
\* rows is aligned with the node values of the earlier one.
C3_FixBetweenNodeRows ==
    Aligned =>
        \A j \in DOMAIN df_drone.rows :
            \A a \in DOMAIN node_data.rows : \A b \in DOMAIN node_data.rows :
                Midway(node_data.rows[a].Timestamp, df_drone.rows[j].Timestamp,
                       node_data.rows[b].Timestamp, node_data.rows)
                => \A i \in DOMAIN df_final.rows :
                      DronePart(df_final.rows[i]) = df_drone.rows[j].vals
                      => NodePart(df_final.rows[i]) = node_data.rows[a].vals

\* C3 as amended: a node row exactly midway between two adjacent telemetry
\* fixes is aligned with the telemetry values of a fix at the earlier
\* timestamp.
C3_NodeRowBetweenFixes ==
    Aligned =>
        \A i \in DOMAIN df_final.rows :
            \A a \in DOMAIN df_drone.rows : \A b \in DOMAIN df_drone.rows :
                Midway(df_drone.rows[a].Timestamp, df_final.rows[i].Timestamp,
                       df_drone.rows[b].Timestamp, df_drone.rows)
                => \E e \in DOMAIN df_drone.rows :
                      /\ df_drone.rows[e].Timestamp = df_drone.rows[a].Timestamp
                      /\ DronePart(df_final.rows[i]) = df_drone.rows[e].vals

\* a node row lies midway between two fixes whose values differ
C3_Witness ==
    /\ Aligned
    /\ \E i \in DOMAIN df_final.rows :
        \E a \in DOMAIN df_drone.rows : \E b \in DOMAIN df_drone.rows :
            /\ Midway(df_drone.rows[a].Timestamp, df_final.rows[i].Timestamp,
                      df_drone.rows[b].Timestamp, df_drone.rows)
            /\ df_drone.rows[a].vals # df_drone.rows[b].vals
            /\ DronePart(df_final.rows[i]) = df_drone.rows[a].vals

\* ------------------------------------------------------------------ C11
\* the position a retained message has once scaled: degrees and meters
Scaled(m) ==
    [Latitude |-> Float(m.Lat, Pow10(7)), Longitude |-> Float(m.Lng, Pow10(7)),
     Altitude |-> Float(m.Alt, 100)]

\* the position of a retained message as decoded
Decoded(m) == [Latitude |-> Float(m.Lat, 1), Longitude |-> Float(m.Lng, 1)]

\* the position columns of a row of the telemetry or of the output table
Position(r) ==
    [c \in {"Latitude", "Longitude", "Altitude"} \cap DOMAIN r.vals |-> r.vals[c]]

\* C11 as stated: for every retained telemetry message the latitude and
\* longitude of its row are the raw values divided by 1e7 and its altitude
\* is the raw altitude divided by 100, in the 2D and in the 3D script
C11_ScaledInEveryVariant ==
    \A i \in DOMAIN df_drone.rows : Position(df_drone.rows[i]) = Scaled(drone_data[i])

\* C11 as amended: the 3D script divides latitude and longitude by 1e7 and
\* altitude by 100; the 2D script keeps latitude and longitude as decoded
\* and has no altitude in meters; the positions of the written table are
\* positions of retained messages converted that way
C11_ScaledIn3D ==
    LET Conv(m) == IF variant = "3D" THEN Scaled(m) ELSE Decoded(m)
    IN  /\ \A i \in DOMAIN df_drone.rows :
               Position(df_drone.rows[i]) = Conv(drone_data[i])
        /\ output_file.written =>
               \A i \in DOMAIN output_file.table.rows :
                   \E j \in DOMAIN drone_data :
                       Position(output_file.table.rows[i]) = Conv(drone_data[j])

\* a 3D run has written a row whose latitude is not a whole number of degrees
C11_Witness ==
    /\ variant = "3D"
    /\ output_file.written
    /\ \E i \in DOMAIN output_file.table.rows :
           /\ output_file.table.rows[i].vals["Latitude"] = Float(400000001, Pow10(7))
           /\ output_file.table.rows[i].vals["Altitude"] = Float(12345, 100)

\* ------------------------------------------------------------------ C12
\* the values of the node columns in the rows of the written table
OutputCells ==
    {output_file.table.rows[i].vals[c] :
        i \in DOMAIN output_file.table.rows, c \in NodeCols}

\* v is the least, or the greatest, value of the non-empty set S
IsLeast(v, S) == v \in S /\ \A w \in S : ~FloatLess(w, v)
IsGreatest(v, S) == v \in S /\ \A w \in S : ~FloatLess(v, w)

\* the display range of the figure is derived from the values S: [0, 1] when
\* their least and greatest value are equal, [least, greatest] otherwise
RangeFrom(S) ==
    IF \E v \in S : IsLeast(v, S) /\ IsGreatest(v, S)
    THEN figure.vmin = Zero /\ figure.vmax = Float(1, 1)
    ELSE S # {} => IsLeast(figure.vmin, S) /\ IsGreatest(figure.vmax, S)

\* max_concern of every row is the maximum of the row's node columns
MaxConcernIsRowMax ==
    \A i \in DOMAIN output_file.table.rows :
        IsGreatest(figure.MaxNode[i],
                   {output_file.table.rows[i].vals[c] : c \in NodeCols})

\* C12: once the figure is drawn, max_concern of every output row is the
\* maximum of that row's node-column values; the display range is [min, max]
\* of the table (of its node values, or of its max_concern values) when they
\* differ and [0, 1] when they are equal; and lo < hi always holds.
C12_DisplayRange ==
    figure.drawn =>
        /\ MaxConcernIsRowMax
        /\ \/ RangeFrom(OutputCells)
           \/ RangeFrom({figure.MaxNode[i] : i \in DOMAIN figure.MaxNode})
        /\ figure.vmin.kind = "float" /\ figure.vmax.kind = "float"
        /\ FloatLess(figure.vmin, figure.vmax)

\* the same for a table that has a row
C12_DisplayRangeOfRows ==
    output_file.table.rows # <<>> => C12_DisplayRange

\* ------------------------------------------------------------------ C13
\* the position the telemetry table has for the retained message m
Fix(m) == IF variant = "3D" THEN Scaled(m) ELSE Decoded(m)

\* the row i of the written table carries the position of the first
\* retained fix, the origin by convention
AtOrigin(i) ==
    /\ drone_data # <<>>
    /\ Position(output_file.table.rows[i]) = Fix(drone_data[1])

\* C13 as stated: node locations and telemetry fixes are plotted as planar
\* points relative to one origin, the first valid telemetry fix; whatever
\* the projection, the origin itself is then plotted at (0, 0), and so is
\* every node location that coincides with it.
C13_ProjectedFromOrigin ==
    figure.drawn =>
        /\ \A i \in DOMAIN figure.points :
               AtOrigin(i) => figure.points[i].x = Zero /\ figure.points[i].y = Zero
        /\ \A k \in DOMAIN figure.marks :
               (/\ drone_data # <<>>
                /\ node_avg_locations[k].avg_lat = Fix(drone_data[1]).Latitude
                /\ node_avg_locations[k].avg_lon = Fix(drone_data[1]).Longitude)
               => figure.marks[k].x = Zero /\ figure.marks[k].y = Zero

\* C13 as amended: nothing is projected and no origin is taken off: every
\* point of the drone path is plotted at the longitude and latitude (and in
\* 3D the altitude) of its row of the written table, which are those of a
\* retained fix; every node mark (2D only) is at the mean longitude and
\* mean latitude stored for its node, one mark per stored node.
C13_GeodeticPositions ==
    figure.drawn =>
        /\ Len(figure.points) = Len(output_file.table.rows)
        /\ \A i \in DOMAIN figure.points :
               LET r == output_file.table.rows[i].vals
               IN  /\ figure.points[i].x = r["Longitude"]
                   /\ figure.points[i].y = r["Latitude"]
                   /\ variant = "3D" => figure.points[i].z = r["Altitude"]
                   /\ \E j \in DOMAIN drone_data :
                          /\ figure.points[i].x = Fix(drone_data[j]).Longitude
                          /\ figure.points[i].y = Fix(drone_data[j]).Latitude
        /\ Len(figure.marks) = IF variant = "2D" THEN Len(node_avg_locations) ELSE 0
        /\ \A k \in DOMAIN figure.marks :
               /\ figure.marks[k].node = node_avg_locations[k].node
               /\ figure.marks[k].x = node_avg_locations[k].avg_lon
               /\ figure.marks[k].y = node_avg_locations[k].avg_lat

\* a 2D figure with a node mark and with the first fix on the drone path, at
\* its own longitude and latitude
C13_Witness ==
    /\ figure.drawn
    /\ variant = "2D"
    /\ figure.marks # <<>>
    /\ \E i \in DOMAIN figure.points :
           /\ AtOrigin(i)
           /\ figure.points[i].x = Float(-750000000, 1)
           /\ figure.points[i].y # Zero

\* ------------------------------------------------------------------ C14
\* the key a row of a node series has in the filled table
FilledKey(t) == IF t.kind = "NaT" THEN IntZero ELSE t

\* the columns the table can have for node n
ColumnsOf(n) == {n, n \o "_x", n \o "_y"}

\* C14 as stated: every row of the joint node table comes from a usable
\* sample, a retained row whose probability was extracted; a Valid row whose
\* probability is absent contributes no row and no 0 reading.
C14_UsableSamplesOnly ==
    pc = "drone" =>
        \A k \in DOMAIN node_data.rows :
            \E n \in DOMAIN series : \E i \in DOMAIN series[n] :
                /\ FilledKey(series[n][i].Timestamp) = node_data.rows[k].Timestamp
                /\ ~IsNA(series[n][i].vals[n])

\* C14 as amended: every row of the joint node table comes from a row that
\* passed the status filter, with or without a probability; a retained row
\* whose probability is absent still contributes its row, and its cell
\* reads 0 once the table is filled.
C14_RetainedRowsContribute ==
    pc = "drone" =>
        /\ \A k \in DOMAIN node_data.rows :
               \E n \in DOMAIN series : \E i \in DOMAIN series[n] :
                   FilledKey(series[n][i].Timestamp) = node_data.rows[k].Timestamp
        /\ \A n \in DOMAIN series : \A i \in DOMAIN series[n] :
               IsNA(series[n][i].vals[n]) =>
                   \E k \in DOMAIN node_data.rows :
                       /\ node_data.rows[k].Timestamp = FilledKey(series[n][i].Timestamp)
                       /\ \E c \in ColumnsOf(n) \cap DOMAIN node_data.rows[k].vals :
                              node_data.rows[k].vals[c] = Zero

\* the table is filled and has a row that only a retained row without a
\* probability accounts for
C14_Witness ==
    /\ pc = "drone"
    /\ \E k \in DOMAIN node_data.rows :
           /\ \A c \in DOMAIN node_data.rows[k].vals : node_data.rows[k].vals[c] = Zero
           /\ \A n \in DOMAIN series : \A i \in DOMAIN series[n] :
                  FilledKey(series[n][i].Timestamp) = node_data.rows[k].Timestamp
                  => IsNA(series[n][i].vals[n])

\* ------------------------------------------------------------------ C15
\* total_files counts the loaded files, the index is within them whenever
\* there is one, and no handler has subscripted dataframes out of range
ViewerInRange ==
    /\ total_files = Len(dataframes)
    /\ dataframes # <<>> => 0 <= current_index /\ current_index < total_files
    /\ viewer_raised \notin {"IndexError", "ZeroDivisionError"}
    /\ \A k \in DOMAIN indexed : 0 <= indexed[k] /\ indexed[k] < total_files

\* one handler: the right key on the last file leads to the first, the left
\* key on the first file to the last, and a key or the toggle with no file
\* loaded leaves the index alone and reads no element of dataframes
ViewerStep ==
    /\ (event' = "right" /\ dataframes # <<>> /\ current_index = total_files - 1)
          => current_index' = 0
    /\ (event' = "left" /\ dataframes # <<>> /\ current_index = 0)
          => current_index' = total_files - 1
    /\ (event' \in {"right", "left", "up", "toggle"} /\ dataframes = <<>>)
          => current_index' = current_index /\ indexed' = <<>>

\* C15: in the interactive viewer, after any sequence of loads, left and
\* right key presses and toggles, total_files equals len(dataframes) and,
\* whenever a file is loaded, 0 <= current_index < total_files; right from
\* the last file wraps to the first and left from the first to the last; a
\* key press or toggle with no file loaded leaves current_index unchanged
\* and does not index into dataframes.
C15_ViewerIndex == []ViewerInRange /\ [][ViewerStep]_vars

\* the right key has just wrapped from the last of several files to the
\* first, after the toggle was switched on
C15_Witness ==
    /\ event = "right"
    /\ total_files >= 2
    /\ current_index = 0
    /\ indexed = <<0>>
    /\ show_invalid_points

====
